---- MODULE Spec2Model ----
(***************************************************************************)
(* State-machine model of the task-management web client:                  *)
(*   - AuthProvider (contexts/AuthContext): token, user, loading and the   *)
(*     localStorage keys 'token' and 'user';                               *)
(*   - utils/api: the axios instance with its request and response         *)
(*     interceptors;                                                       *)
(*   - the pages Login, Signup, Dashboard and the components Profile and   *)
(*     Tasks, each with its form state, validation and async handlers.     *)
(* Strings that the code inspects (form fields) are sequences of           *)
(* one-character strings; messages are plain strings.                      *)
(***************************************************************************)
EXTENDS Integers, Sequences, FiniteSets, TLC

\* ------------------------------------------------------------------ bounds
\* Largest number of requests in flight at once: in the specification of
\* the whole application, and in the specification of the tasks view.
MaxInflight == 1
MaxTasksInflight == 2
\* Longest e-mail string drawn as an input of the validation specification.
MaxEmailLen == 5

\* ---------------------------------------------------------- JS primitives
\* JavaScript null / undefined where a string is expected.
Null == "null"
\* JavaScript null / undefined where an object is expected.
NullObj == [null |-> TRUE]
\* A request without Authorization header.
NoAuthorization == << >>
\* An absent error or message text (the empty string, which is falsy).
Empty == ""

\* The empty string as a sequence of characters.
EmptyStr == << >>

IsSpace(c) == c = " "

RECURSIVE TrimStart(_)
TrimStart(s) ==
  IF s = << >> THEN s
  ELSE IF IsSpace(Head(s)) THEN TrimStart(Tail(s)) ELSE s

RECURSIVE TrimEnd(_)
TrimEnd(s) ==
  IF s = << >> THEN s
  ELSE IF IsSpace(s[Len(s)]) THEN TrimEnd(SubSeq(s, 1, Len(s) - 1)) ELSE s

\* String.prototype.trim
Trim(s) == TrimEnd(TrimStart(s))

\* The regular expression /\S+@\S+\.\S+/ as a non-deterministic automaton:
\* q = 0 first \S of the local part, 1 inside \S+ before '@', 2 first \S
\* after '@', 3 inside \S+ before '.', 4 the \S after '.'.
RECURSIVE RegexMatchAt(_, _, _)
RegexMatchAt(s, i, q) ==
  IF i > Len(s) THEN FALSE
  ELSE CASE q = 0 -> ~IsSpace(s[i]) /\ RegexMatchAt(s, i + 1, 1)
         [] q = 1 -> \/ (s[i] = "@" /\ RegexMatchAt(s, i + 1, 2))
                     \/ (~IsSpace(s[i]) /\ RegexMatchAt(s, i + 1, 1))
         [] q = 2 -> ~IsSpace(s[i]) /\ RegexMatchAt(s, i + 1, 3)
         [] q = 3 -> \/ (s[i] = "." /\ RegexMatchAt(s, i + 1, 4))
                     \/ (~IsSpace(s[i]) /\ RegexMatchAt(s, i + 1, 3))
         [] q = 4 -> ~IsSpace(s[i])

\* A test every string passes.
EmailRegexTest_anything(s) == TRUE

\* RegExp.prototype.test: the expression is not anchored, a match may start
\* at any position.
EmailRegexTest(s) == \E i \in 1..Len(s) : RegexMatchAt(s, i, 0)

\* Minimum password length accepted by the forms.
MinPasswordLength == 6

\* The keys of an errors object whose message is set, as a function.
ErrorsOf(msg) == [k \in {f \in DOMAIN msg : msg[f] # Empty} |-> msg[k]]

\* errors[name] read as JavaScript does: undefined (falsy) when absent.
ErrorAt(errors, k) == IF k \in DOMAIN errors THEN errors[k] ELSE Empty

\* Object.keys(newErrors).length === 0
NoErrors(newErrors) == DOMAIN newErrors = {}

\* ------------------------------------------------------ field validators
emailRule(email) ==
  IF Trim(email) = EmptyStr THEN "Email is required"
  ELSE IF ~EmailRegexTest(email) THEN "Email is invalid"
  ELSE Empty

passwordRule(password) ==
  IF password = EmptyStr THEN "Password is required"
  ELSE IF Len(password) < MinPasswordLength
       THEN "Password must be at least 6 characters"
  ELSE Empty

\* Login.validate: the newErrors object it builds.
Login_validate(formData) ==
  LET msg == [f \in {"email", "password"} |->
        CASE f = "email"    -> emailRule(formData.email)
          [] f = "password" -> passwordRule(formData.password)]
  IN  ErrorsOf(msg)

\* A Signup.validate that does not compare the two passwords.
Signup_validate_noCompare(formData) ==
  LET msg == [f \in {"name", "email", "password", "confirmPassword"} |->
        CASE f = "name" ->
               IF Trim(formData.name) = EmptyStr THEN "Name is required" ELSE Empty
          [] f = "email" -> emailRule(formData.email)
          [] f = "password" -> passwordRule(formData.password)
          [] f = "confirmPassword" ->
               IF formData.confirmPassword = EmptyStr
               THEN "Please confirm your password" ELSE Empty]
  IN  ErrorsOf(msg)

\* A Signup.validate that accepts a password of 5 characters.
Signup_validate_offByOne(formData) ==
  LET msg == [f \in {"name", "email", "password", "confirmPassword"} |->
        CASE f = "name" ->
               IF Trim(formData.name) = EmptyStr THEN "Name is required" ELSE Empty
          [] f = "email" ->
               IF Trim(formData.email) = EmptyStr THEN "Email is required"
               ELSE IF ~EmailRegexTest(formData.email) THEN "Email is invalid"
               ELSE Empty
          [] f = "password" ->
               IF formData.password = EmptyStr THEN "Password is required"
               ELSE IF Len(formData.password) < MinPasswordLength - 1
                    THEN "Password must be at least 6 characters"
               ELSE Empty
          [] f = "confirmPassword" ->
               IF formData.confirmPassword = EmptyStr
               THEN "Please confirm your password"
               ELSE IF formData.password # formData.confirmPassword
                    THEN "Passwords do not match"
               ELSE Empty]
  IN  ErrorsOf(msg)

\* Signup.validate: the newErrors object it builds.
Signup_validate(formData) ==
  LET msg == [f \in {"name", "email", "password", "confirmPassword"} |->
        CASE f = "name" ->
               IF Trim(formData.name) = EmptyStr THEN "Name is required" ELSE Empty
          [] f = "email" ->
               IF Trim(formData.email) = EmptyStr THEN "Email is required"
               ELSE IF ~EmailRegexTest(formData.email) THEN "Email is invalid"
               ELSE Empty
          [] f = "password" ->
               IF formData.password = EmptyStr THEN "Password is required"
               ELSE IF Len(formData.password) < MinPasswordLength
                    THEN "Password must be at least 6 characters"
               ELSE Empty
          [] f = "confirmPassword" ->
               IF formData.confirmPassword = EmptyStr
               THEN "Please confirm your password"
               ELSE IF formData.password # formData.confirmPassword
                    THEN "Passwords do not match"
               ELSE Empty]
  IN  ErrorsOf(msg)

\* A Profile.validate that stops at the first field in error.
Profile_validate_failFast(formData) ==
  LET msg == [f \in {"name", "email", "password"} |->
        CASE f = "name" ->
               IF Trim(formData.name) = EmptyStr THEN "Name is required" ELSE Empty
          [] f = "email" ->
               IF Trim(formData.name) = EmptyStr THEN Empty
               ELSE IF Trim(formData.email) = EmptyStr THEN "Email is required"
               ELSE IF ~EmailRegexTest(formData.email) THEN "Email is invalid"
               ELSE Empty
          [] f = "password" ->
               IF Trim(formData.name) = EmptyStr \/ Trim(formData.email) = EmptyStr
                  \/ ~EmailRegexTest(formData.email)
               THEN Empty
               ELSE IF formData.password # EmptyStr
                       /\ Len(formData.password) < MinPasswordLength
                    THEN "Password must be at least 6 characters"
               ELSE Empty]
  IN  ErrorsOf(msg)

\* Profile.validate: the password is optional.
Profile_validate(formData) ==
  LET msg == [f \in {"name", "email", "password"} |->
        CASE f = "name" ->
               IF Trim(formData.name) = EmptyStr THEN "Name is required" ELSE Empty
          [] f = "email" ->
               IF Trim(formData.email) = EmptyStr THEN "Email is required"
               ELSE IF ~EmailRegexTest(formData.email) THEN "Email is invalid"
               ELSE Empty
          [] f = "password" ->
               IF formData.password # EmptyStr
                  /\ Len(formData.password) < MinPasswordLength
               THEN "Password must be at least 6 characters"
               ELSE Empty]
  IN  ErrorsOf(msg)

\* A Tasks.validate that does not trim the title.
Tasks_validate_untrimmed(formData) ==
  LET msg == [f \in {"title", "description"} |->
        CASE f = "title" ->
               IF formData.title = EmptyStr THEN "Title is required" ELSE Empty
          [] f = "description" ->
               IF Trim(formData.description) = EmptyStr
               THEN "Description is required" ELSE Empty]
  IN  ErrorsOf(msg)

\* Tasks.validate
Tasks_validate(formData) ==
  LET msg == [f \in {"title", "description"} |->
        CASE f = "title" ->
               IF Trim(formData.title) = EmptyStr THEN "Title is required" ELSE Empty
          [] f = "description" ->
               IF Trim(formData.description) = EmptyStr
               THEN "Description is required" ELSE Empty]
  IN  ErrorsOf(msg)


\* ------------------------------------------------------------ value sets
\* Bearer tokens the server hands out (opaque, non-empty strings).
Tokens == {"t1", "t2"}

ValidEmail == <<"a", "@", "a", ".", "a">>

\* User records { id, name, email } the server returns.
Users == {[id |-> 1, name |-> nm, email |-> ValidEmail] : nm \in {<<"a">>, <<"b">>}}

\* JSON.stringify of a user record: the serialized key/value pairs.
JSON_stringify(u) == << <<"id", u.id>>, <<"name", u.name>>, <<"email", u.email>> >>

\* JSON.parse of a serialized user record.
JSON_parse(str) == [id |-> str[1][2], name |-> str[2][2], email |-> str[3][2]]

Routes == {"/login", "/signup", "/dashboard"}

\* Response statuses: "200" success, "400", "401" and "500" failures with
\* a response, NetworkError a failure without response (error.response is
\* undefined).
NetworkError == "network"
ServerMessage == "server message"

\* The failures the server (or the network) may answer with: a 400 with a
\* message, a 401 without message, a 500 with a message, no response at all.
FailureResponses ==
  {[status |-> "400", message |-> ServerMessage, data |-> NullObj],
   [status |-> "401", message |-> Null, data |-> NullObj],
   [status |-> "500", message |-> ServerMessage, data |-> NullObj],
   [status |-> NetworkError, message |-> Null, data |-> NullObj]}

\* The one task the server holds in this model, and the lists it returns.
Task1 == [id |-> 1, title |-> <<"a">>, description |-> <<"a">>, status |-> "pending"]
TaskLists == {<< >>, <<Task1>>}

SuccessData(kind) ==
  CASE kind \in {"auth.login", "auth.signup"} ->
         {[token |-> t, user |-> u] : t \in Tokens, u \in Users}
    [] kind = "profile.update" -> {[user |-> u] : u \in Users}
    [] kind = "tasks.getAll"   -> {[tasks |-> l] : l \in TaskLists}
    [] OTHER                   -> {NullObj}

\* What the server may answer to a request of the given kind.
Responses(kind) ==
  {[status |-> "200", message |-> Null, data |-> d] : d \in SuccessData(kind)}
  \cup FailureResponses

\* error.response?.data?.message || fallback
ErrorText(resp, fallback) ==
  IF resp.status # NetworkError /\ resp.message # Null THEN resp.message ELSE fallback

\* ------------------------------------------------------------------ state
VARIABLES
  storage,    \* localStorage: a function from the keys present to their values
  token,      \* AuthProvider state
  user,       \* AuthProvider state
  loading,    \* AuthProvider state: restoration from localStorage pending
  route,      \* current location of the router
  view,       \* page component mounted for the route ("none": nothing shown)
  href,       \* pending full-page navigation set by window.location.href
  activeTab,  \* Dashboard state
  Login,      \* state of the Login page
  Signup,     \* state of the Signup page
  Profile,    \* state of the Profile component
  Tasks,      \* state of the Tasks component
  requests,   \* the requests in flight, in the order of their dispatch
  event,      \* what the last step was, when it was a submission, a
              \* confirmation dialog or a response (NoEvent otherwise)
  limit,      \* the bound on requests in flight of the specification
  lastLogin   \* what the last login(token, user) was given and the user given
              \* to it or to updateUser since, if neither logout() nor a 401
              \* has followed (NullObj otherwise); kept over page loads

vars == <<storage, token, user, loading, route, view, href, activeTab,
          Login, Signup, Profile, Tasks, requests, event, limit, lastLogin>>

NoErrorsObj == [k \in {} |-> Empty]
NoEvent == [name |-> Null, n |-> 0, kind |-> Null, status |-> Null, data |-> NullObj]
NoMessage == [type |-> Empty, text |-> Empty]

LoginInit ==
  [formData |-> [email |-> EmptyStr, password |-> EmptyStr],
   errors |-> NoErrorsObj, loading |-> FALSE, apiError |-> Empty]

SignupInit ==
  [formData |-> [name |-> EmptyStr, email |-> EmptyStr,
                 password |-> EmptyStr, confirmPassword |-> EmptyStr],
   errors |-> NoErrorsObj, loading |-> FALSE, apiError |-> Empty]

ProfileInit ==
  [isEditing |-> FALSE,
   formData |-> [name |-> EmptyStr, email |-> EmptyStr, password |-> EmptyStr],
   errors |-> NoErrorsObj, loading |-> FALSE, message |-> NoMessage]

TasksInit ==
  [tasks |-> << >>, loading |-> FALSE, showModal |-> FALSE, editingTask |-> NullObj,
   searchText |-> EmptyStr, statusFilter |-> Empty,
   formData |-> [title |-> EmptyStr, description |-> EmptyStr, status |-> "pending"],
   errors |-> NoErrorsObj, message |-> NoMessage]

\* localStorage
EmptyStorage == [k \in {} |-> Null]
getItem(store, key) == IF key \in DOMAIN store THEN store[key] ELSE Null
hasItem(store, key) == key \in DOMAIN store
setItem(store, key, value) ==
  [k \in DOMAIN store \cup {key} |-> IF k = key THEN value ELSE store[k]]
removeItem(store, key) == [k \in DOMAIN store \ {key} |-> store[k]]

\* The current state as one record; handlers are functions from such a
\* record to the record after their assignments.  userSet records that
\* setUser was called (a new object: the [user] effect of Profile re-runs).
Cur ==
  [storage |-> storage, token |-> token, user |-> user, loading |-> loading,
   route |-> route, view |-> view, href |-> href, activeTab |-> activeTab,
   Login |-> Login, Signup |-> Signup, Profile |-> Profile, Tasks |-> Tasks,
   requests |-> requests,
   event |-> NoEvent, limit |-> limit, lastLogin |-> lastLogin, userSet |-> FALSE]

\* ----------------------------------------------------------- AuthProvider
login(s, tok, userData) ==
  [s EXCEPT !.token = tok, !.user = userData, !.userSet = TRUE,
            !.lastLogin = [token |-> tok, user |-> userData, current |-> userData],
            !.storage = setItem(setItem(@, "token", tok),
                                "user", JSON_stringify(userData))]

\* A logout that leaves the stored user behind.
logout_keepsStoredUser(s) ==
  [s EXCEPT !.token = Null, !.user = NullObj, !.userSet = TRUE,
            !.storage = removeItem(@, "token")]

logout(s) ==
  [s EXCEPT !.token = Null, !.user = NullObj, !.userSet = TRUE,
            !.lastLogin = NullObj,
            !.storage = removeItem(removeItem(@, "token"), "user")]

\* An updateUser that takes the stored token away.
updateUser_dropsToken(s, userData) ==
  [s EXCEPT !.user = userData, !.userSet = TRUE,
            !.storage = removeItem(setItem(@, "user", JSON_stringify(userData)),
                                   "token")]

updateUser(s, userData) ==
  [s EXCEPT !.user = userData, !.userSet = TRUE,
            !.lastLogin = IF @ = NullObj THEN @ ELSE [@ EXCEPT !.current = userData],
            !.storage = setItem(@, "user", JSON_stringify(userData))]

\* An isAuthenticated that no longer depends on the token.
isAuthenticated_always(tok) == TRUE

\* isAuthenticated: !!token
isAuthenticated(tok) == tok # Null

\* A restoration that is content with the stored token.
restore_tokenOnly(s) ==
  IF hasItem(s.storage, "token")
  THEN [s EXCEPT !.token = getItem(s.storage, "token"), !.loading = FALSE]
  ELSE [s EXCEPT !.loading = FALSE]

\* The mount effect of AuthProvider: restore the session from localStorage.
restore(s) ==
  IF hasItem(s.storage, "token") /\ hasItem(s.storage, "user")
      THEN [s EXCEPT !.token = getItem(s.storage, "token"),
                     !.user = JSON_parse(s.storage["user"]),
                     !.userSet = TRUE, !.loading = FALSE]
      ELSE [s EXCEPT !.loading = FALSE]

\* -------------------------------------------------------------- utils/api
\* Request interceptor: attach the token found in localStorage.
requestInterceptor(s, config) ==
  LET tok == getItem(s.storage, "token")
  IN  IF tok # Null THEN [config EXCEPT !.Authorization = <<"Bearer", tok>>]
      ELSE config

\* A response interceptor that ends the session on every failure.
responseInterceptor_anyFailure(s, resp) ==
  [s EXCEPT !.storage = removeItem(removeItem(@, "token"), "user"),
            !.href = "/login"]

\* A response interceptor that treats a 401 like any other failure.
responseInterceptor_ignores401(s, resp) == s

\* Response interceptor (error branch): on 401 clear localStorage and set
\* window.location.href; the error is rejected to the caller in every case.
responseInterceptor(s, resp) ==
  IF resp.status # NetworkError /\ resp.status = "401"
  THEN [s EXCEPT !.storage = removeItem(removeItem(@, "token"), "user"),
                 !.href = "/login", !.lastLogin = NullObj]
  ELSE s

\* One api call: the request passes the request interceptor and is sent.
\* origin is the component whose handler sent it, isLive whether that
\* component instance is mounted, cause the kind of the request whose
\* completion triggered this one (Null if none), closure what the handler
\* had captured.
api(s, kind, data, origin, isLive, cause, closure) ==
  LET config == requestInterceptor(s,
                  [kind |-> kind, Authorization |-> NoAuthorization, data |-> data,
                   origin |-> origin, live |-> isLive, cause |-> cause,
                   closure |-> closure, superseded |-> FALSE])
  IN  [s EXCEPT !.requests = Append(@, config)]

\* The sequence q without its n-th element.
Remove(q, n) == SubSeq(q, 1, n - 1) \o SubSeq(q, n + 1, Len(q))

\* The response of the n-th request in flight has arrived.
settle(s, n, resp) ==
  [s EXCEPT !.requests = Remove(@, n),
            !.event = [name |-> "response", n |-> n, kind |-> s.requests[n].kind,
                       status |-> resp.status, data |-> resp.data]]

pending == 1..Len(requests)


\* Requests that, once answered successfully, dispatch a list re-fetch.
Mutations == {"tasks.create", "tasks.update", "tasks.delete"}

\* Room for one more request in flight.
Room == Len(requests) < limit

\* ------------------------------------------------------- Tasks.fetchTasks
\* The query parameters: a key is set only for a non-empty value.
FetchParams(searchText, statusFilter) ==
  [k \in (IF searchText # EmptyStr THEN {"search"} ELSE {})
          \cup (IF statusFilter # Empty THEN {"status"} ELSE {})
     |-> IF k = "search" THEN searchText ELSE statusFilter]

\* fetchTasks as created by the render that saw searchText and statusFilter.
fetchTasks(s, searchText, statusFilter, isLive, cause) ==
  LET s1 == IF isLive THEN [s EXCEPT !.Tasks.loading = TRUE] ELSE s
  IN  api(s1, "tasks.getAll", FetchParams(searchText, statusFilter),
          "Tasks", isLive, cause, NullObj)

\* ------------------------------------------------------ router and render
\* ProtectedRoute: nothing while the session is being restored, a redirect
\* to the login view when not authenticated, its children otherwise.
ProtectedRoute(isLoading, authenticated) ==
  IF isLoading THEN "none"
  ELSE IF ~authenticated THEN "redirect"
  ELSE "children"

\* The route after the <Navigate> of the guard has taken effect.
RouteAfterGuard(r, isLoading, tok) ==
  IF r = "/dashboard" /\ ProtectedRoute(isLoading, isAuthenticated(tok)) = "redirect"
  THEN "/login" ELSE r

\* The page the <Routes> of App render for a route.
PageOf(r, isLoading, tok) ==
  CASE r = "/login"  -> "Login"
    [] r = "/signup" -> "Signup"
    [] r = "/dashboard" ->
         IF ProtectedRoute(isLoading, isAuthenticated(tok)) = "children"
         THEN "Dashboard" ELSE "none"

Mounted(v, tab, component) ==
  CASE component = "Login"   -> v = "Login"
    [] component = "Signup"  -> v = "Signup"
    [] component = "Profile" -> v = "Dashboard" /\ tab = "profile"
    [] component = "Tasks"   -> v = "Dashboard" /\ tab = "tasks"

\* Profile's effect on [user]: copy the user into the form.
ProfileUserEffect(p, u) ==
  IF u # NullObj
  THEN [p EXCEPT !.formData = [name |-> u.name, email |-> u.email, password |-> EmptyStr]]
  ELSE p

\* React's commit after a handler: the guard's redirect, unmounting (state
\* discarded, pending responses no longer reach the component), mounting
\* (initial state, mount effects) and the effects of the mounted components.
Render(s) ==
  LET r2   == RouteAfterGuard(s.route, s.loading, s.token)
      v2   == PageOf(r2, s.loading, s.token)
      tab2 == IF v2 = "Dashboard" /\ view = "Dashboard" THEN s.activeTab ELSE "profile"
      was(c) == Mounted(view, activeTab, c)
      is(c)  == Mounted(v2, tab2, c)
      s1 == [s EXCEPT
               !.route = r2, !.view = v2, !.activeTab = tab2,
               !.Login  = IF is("Login") /\ was("Login") THEN @ ELSE LoginInit,
               !.Signup = IF is("Signup") /\ was("Signup") THEN @ ELSE SignupInit,
               !.Profile =
                 IF ~is("Profile") THEN ProfileInit
                 ELSE IF ~was("Profile") THEN ProfileUserEffect(ProfileInit, s.user)
                 ELSE IF s.userSet THEN ProfileUserEffect(@, s.user)
                 ELSE @,
               !.Tasks = IF is("Tasks") /\ was("Tasks") THEN @ ELSE TasksInit,
               !.requests = [n \in DOMAIN @ |->
                               [@[n] EXCEPT !.live = @ /\ is(s.requests[n].origin)]]]
  IN  IF is("Tasks") /\ ~was("Tasks")
      THEN fetchTasks(s1, EmptyStr, Empty, TRUE, Null)
      ELSE s1

\* The next state is the record s.
Apply(s) ==
  /\ storage' = s.storage /\ token' = s.token /\ user' = s.user
  /\ loading' = s.loading /\ route' = s.route /\ view' = s.view
  /\ href' = s.href /\ activeTab' = s.activeTab
  /\ Login' = s.Login /\ Signup' = s.Signup
  /\ Profile' = s.Profile /\ Tasks' = s.Tasks
  /\ requests' = s.requests
  /\ event' = s.event /\ limit' = s.limit /\ lastLogin' = s.lastLogin

\* A freshly loaded page at route r over the given localStorage: the state
\* of the first render, before the mount effect of AuthProvider has run.
FreshPage(store, r, lim) ==
  [storage |-> store, token |-> Null, user |-> NullObj, loading |-> TRUE,
   route |-> r, view |-> PageOf(r, TRUE, Null), href |-> Null,
   activeTab |-> "profile",
   Login |-> LoginInit, Signup |-> SignupInit,
   Profile |-> ProfileInit, Tasks |-> TasksInit,
   requests |-> << >>,
   event |-> NoEvent, limit |-> lim, lastLogin |-> NullObj, userSet |-> FALSE]


\* The current state is the record s.
StateIs(s) ==
  /\ storage = s.storage /\ token = s.token /\ user = s.user
  /\ loading = s.loading /\ route = s.route /\ view = s.view
  /\ href = s.href /\ activeTab = s.activeTab
  /\ Login = s.Login /\ Signup = s.Signup
  /\ Profile = s.Profile /\ Tasks = s.Tasks
  /\ requests = s.requests
  /\ event = s.event /\ limit = s.limit /\ lastLogin = s.lastLogin

\* The application is opened at some route in a browser whose localStorage
\* holds nothing yet.
Init == \E r \in Routes : StateIs(FreshPage(EmptyStorage, r, MaxInflight))

\* ---------------------------------------------------- page and navigation
\* AuthProvider's mount effect runs after the first render, before any event.
Restore ==
  /\ loading
  /\ Apply(Render(restore(Cur)))

\* The document is loaded anew (a reload, a typed address, or the pending
\* window.location.href navigation completing): the page's memory and its
\* requests in flight are gone, localStorage stays.
Reload(r) ==
  /\ href # Null => r = href
  /\ Apply([FreshPage(storage, r, limit) EXCEPT !.lastLogin = lastLogin])

\* navigate(to) of the router.
navigate(s, to) == [s EXCEPT !.route = to]

\* <Link to="/signup"> on the Login page, <Link to="/login"> on Signup.
LinkTo(to) ==
  /\ ~loading
  /\ \/ view = "Login" /\ to = "/signup"
     \/ view = "Signup" /\ to = "/login"
  /\ Apply(Render(navigate(Cur, to)))

\* The event of a form submission or of a confirmation dialog.
Submission(handler) == [NoEvent EXCEPT !.name = handler]

\* ------------------------------------------------------------------ Login
\* handleChange of the forms: set the field, blank its error if one shows.
FormChange(c, name, value) ==
  [c EXCEPT !.formData = [@ EXCEPT ![name] = value],
            !.errors = IF ErrorAt(@, name) # Empty
                       THEN [k \in DOMAIN @ |-> IF k = name THEN Empty ELSE @[k]]
                       ELSE @]

\* What the user types in the session specification: the forms are filled
\* from the first field to the last, each with one well-formed value.  (The
\* validation specification draws arbitrary field contents instead.)
SampleValue(name) ==
  CASE name = "email"           -> ValidEmail
    [] name = "password"        -> <<"a", "a", "a", "a", "a", "a">>
    [] name = "confirmPassword" -> <<"a", "a", "a", "a", "a", "a">>
    [] name = "name"            -> <<"b">>
    [] name = "title"           -> <<"a">>
    [] name = "description"     -> <<"a">>

\* The fields of the forms in document order.
LoginFields == <<"email", "password">>
SignupFields == <<"name", "email", "password", "confirmPassword">>
ProfileFields == <<"name", "email", "password">>
TaskFields == <<"title", "description">>

\* The next input: the first field still empty, with its value.
Typing(formData, fields) ==
  {<<fields[i], SampleValue(fields[i])>> : i \in
     {j \in 1..Len(fields) :
        /\ formData[fields[j]] = EmptyStr
        /\ \A k \in 1..(j - 1) : formData[fields[k]] # EmptyStr}}

Login_handleChange(name, value) ==
  /\ ~loading /\ view = "Login"
  /\ value # Login.formData[name]
  /\ Apply(Render([Cur EXCEPT !.Login = FormChange(@, name, value)]))

\* Login.handleSubmit up to its await.
Login_submit(s) ==
  LET newErrors == Login_validate(s.Login.formData)
      s1 == [s EXCEPT !.Login.apiError = Empty, !.Login.errors = newErrors,
                      !.event = Submission("Login.handleSubmit")]
  IN  IF ~NoErrors(newErrors) THEN s1
      ELSE api([s1 EXCEPT !.Login.loading = TRUE],
               "auth.login", s.Login.formData, "Login", TRUE, Null, NullObj)

Login_handleSubmit ==
  /\ ~loading /\ view = "Login"
  /\ ~Login.loading
  /\ NoErrors(Login_validate(Login.formData)) => Room
  /\ Apply(Render(Login_submit(Cur)))

\* A Login.handleSubmit whose finally block is missing.
Login_resume_noFinally(s, n, resp) ==
  LET isLive == s.requests[n].live
      s1 == responseInterceptor(settle(s, n, resp), resp)
  IN  IF resp.status = "200"
      THEN navigate(login(s1, resp.data.token, resp.data.user), "/dashboard")
      ELSE IF isLive
           THEN [s1 EXCEPT !.Login.apiError =
                   ErrorText(resp, "Login failed. Please check your credentials.")]
           ELSE s1

\* Login.handleSubmit from the response on: try, catch, finally.  State
\* setters of an unmounted component have no effect.
Login_resume(s, n, resp) ==
  LET isLive == s.requests[n].live
      s1 == responseInterceptor(settle(s, n, resp), resp)
      s2 == IF resp.status = "200"
            THEN navigate(login(s1, resp.data.token, resp.data.user), "/dashboard")
            ELSE IF isLive
                 THEN [s1 EXCEPT !.Login.apiError =
                         ErrorText(resp, "Login failed. Please check your credentials.")]
                 ELSE s1
  IN  IF isLive THEN [s2 EXCEPT !.Login.loading = FALSE] ELSE s2

Login_response(n, resp) ==
  /\ n \in pending /\ requests[n].kind = "auth.login"
  /\ Apply(Render(Login_resume(Cur, n, resp)))

\* ----------------------------------------------------------------- Signup
Signup_handleChange(name, value) ==
  /\ ~loading /\ view = "Signup"
  /\ value # Signup.formData[name]
  /\ Apply(Render([Cur EXCEPT !.Signup = FormChange(@, name, value)]))

\* A signup body that is the whole form.
SignupData_wholeForm(formData) == formData

\* const { confirmPassword, ...signupData } = formData
SignupData(formData) == [k \in DOMAIN formData \ {"confirmPassword"} |-> formData[k]]

Signup_submit(s) ==
  LET newErrors == Signup_validate(s.Signup.formData)
      s1 == [s EXCEPT !.Signup.apiError = Empty, !.Signup.errors = newErrors,
                      !.event = Submission("Signup.handleSubmit")]
  IN  IF ~NoErrors(newErrors) THEN s1
      ELSE api([s1 EXCEPT !.Signup.loading = TRUE],
               "auth.signup", SignupData(s.Signup.formData), "Signup", TRUE, Null, NullObj)

Signup_handleSubmit ==
  /\ ~loading /\ view = "Signup"
  /\ ~Signup.loading
  /\ NoErrors(Signup_validate(Signup.formData)) => Room
  /\ Apply(Render(Signup_submit(Cur)))

Signup_resume(s, n, resp) ==
  LET isLive == s.requests[n].live
      s1 == responseInterceptor(settle(s, n, resp), resp)
      s2 == IF resp.status = "200"
            THEN navigate(login(s1, resp.data.token, resp.data.user), "/dashboard")
            ELSE IF isLive
                 THEN [s1 EXCEPT !.Signup.apiError =
                         ErrorText(resp, "Signup failed. Please try again.")]
                 ELSE s1
  IN  IF isLive THEN [s2 EXCEPT !.Signup.loading = FALSE] ELSE s2

Signup_response(n, resp) ==
  /\ n \in pending /\ requests[n].kind = "auth.signup"
  /\ Apply(Render(Signup_resume(Cur, n, resp)))

\* -------------------------------------------------------------- Dashboard
Dashboard_handleLogout ==
  /\ ~loading /\ view = "Dashboard"
  /\ Apply(Render(navigate(
       logout([Cur EXCEPT !.event = Submission("Dashboard.handleLogout")]),
       "/login")))

\* The sidebar buttons; mounting Tasks sends its first list fetch.
Dashboard_setActiveTab(tab) ==
  /\ ~loading /\ view = "Dashboard"
  /\ tab # activeTab
  /\ tab = "tasks" => Room
  /\ Apply(Render([Cur EXCEPT !.activeTab = tab]))

\* ---------------------------------------------------------------- Profile
ProfileShown == ~loading /\ Mounted(view, activeTab, "Profile")

Profile_edit ==
  /\ ProfileShown /\ ~Profile.isEditing
  /\ Apply(Render([Cur EXCEPT !.Profile.isEditing = TRUE]))

Profile_handleChange(name, value) ==
  /\ ProfileShown /\ Profile.isEditing
  /\ value # Profile.formData[name]
  /\ Apply(Render([Cur EXCEPT !.Profile = FormChange(@, name, value)]))

\* name and email, and the password only if one was entered.
UpdateData(formData) ==
  [k \in {"name", "email"}
         \cup (IF formData.password # EmptyStr THEN {"password"} ELSE {})
     |-> formData[k]]

Profile_submit(s) ==
  LET newErrors == Profile_validate(s.Profile.formData)
      s1 == [s EXCEPT !.Profile.message = NoMessage, !.Profile.errors = newErrors,
                      !.event = Submission("Profile.handleSubmit")]
  IN  IF ~NoErrors(newErrors) THEN s1
      ELSE api([s1 EXCEPT !.Profile.loading = TRUE],
               "profile.update", UpdateData(s.Profile.formData),
               "Profile", TRUE, Null, NullObj)

Profile_handleSubmit ==
  /\ ProfileShown /\ Profile.isEditing
  /\ ~Profile.loading
  /\ NoErrors(Profile_validate(Profile.formData)) => Room
  /\ Apply(Render(Profile_submit(Cur)))

Profile_resume(s, n, resp) ==
  LET isLive == s.requests[n].live
      s1 == responseInterceptor(settle(s, n, resp), resp)
      s2 == IF resp.status = "200"
            THEN LET s3 == updateUser(s1, resp.data.user)
                 IN  IF isLive
                     THEN [s3 EXCEPT
                             !.Profile.isEditing = FALSE,
                             !.Profile.formData.password = EmptyStr,
                             !.Profile.message =
                               [type |-> "success", text |-> "Profile updated successfully!"]]
                     ELSE s3
            ELSE IF isLive
                 THEN [s1 EXCEPT !.Profile.message =
                         [type |-> "error",
                          text |-> ErrorText(resp, "Failed to update profile")]]
                 ELSE s1
  IN  IF isLive THEN [s2 EXCEPT !.Profile.loading = FALSE] ELSE s2

Profile_response(n, resp) ==
  /\ n \in pending /\ requests[n].kind = "profile.update"
  /\ Apply(Render(Profile_resume(Cur, n, resp)))

Profile_handleCancel ==
  /\ ProfileShown /\ Profile.isEditing
  /\ Apply(Render([Cur EXCEPT
       !.Profile.isEditing = FALSE,
       !.Profile.formData =
         IF user # NullObj
         THEN [name |-> user.name, email |-> user.email, password |-> EmptyStr]
         ELSE [name |-> EmptyStr, email |-> EmptyStr, password |-> EmptyStr],
       !.Profile.errors = NoErrorsObj,
       !.Profile.message = NoMessage]))

\* ------------------------------------------------------------------ Tasks
TasksShown == ~loading /\ Mounted(view, activeTab, "Tasks")

\* The controls of the view lie under the modal's overlay while it is open.
TasksControls == TasksShown /\ ~Tasks.showModal

\* Search texts typed and status filters selected.
SearchTexts == {EmptyStr, <<"a">>}
StatusFilters == {Empty, "completed"}

\* onChange of the search input; the effect on [fetchTasks] then fetches.
Tasks_setSearchText(value) ==
  /\ TasksControls
  /\ value # Tasks.searchText
  /\ Room
  /\ Apply(Render(fetchTasks([Cur EXCEPT !.Tasks.searchText = value],
                             value, Tasks.statusFilter, TRUE, Null)))

\* onChange of the status select; the effect on [fetchTasks] then fetches.
Tasks_setStatusFilter(value) ==
  /\ TasksControls
  /\ value # Tasks.statusFilter
  /\ Room
  /\ Apply(Render(fetchTasks([Cur EXCEPT !.Tasks.statusFilter = value],
                             Tasks.searchText, value, TRUE, Null)))

\* History: the list fetches of the mounted view sent before the n-th
\* request (q is the queue without it) are marked, a fetch sent after them
\* having been answered and its list shown.
Supersede(q, n) ==
  [i \in DOMAIN q |->
     IF i < n /\ q[i].kind = "tasks.getAll" /\ q[i].live
     THEN [q[i] EXCEPT !.superseded = TRUE] ELSE q[i]]

\* The response of a list fetch: fetchTasks from its await on.
fetchTasks_resume(s, n, resp) ==
  LET isLive == s.requests[n].live
      s1 == responseInterceptor(settle(s, n, resp), resp)
      s2 == IF ~isLive THEN s1
            ELSE IF resp.status = "200"
                 THEN [s1 EXCEPT !.Tasks.tasks = resp.data.tasks,
                                 !.requests = Supersede(@, n)]
                 ELSE [s1 EXCEPT !.Tasks.message =
                         [type |-> "error",
                          text |-> ErrorText(resp, "Failed to fetch tasks")]]
  IN  IF isLive THEN [s2 EXCEPT !.Tasks.loading = FALSE] ELSE s2

Tasks_fetchResponse(n, resp) ==
  /\ n \in pending /\ requests[n].kind = "tasks.getAll"
  /\ Apply(Render(fetchTasks_resume(Cur, n, resp)))

Tasks_handleChange(name, value) ==
  /\ TasksShown /\ Tasks.showModal
  /\ value # Tasks.formData[name]
  /\ Apply(Render([Cur EXCEPT !.Tasks = FormChange(@, name, value)]))

Tasks_handleCreate ==
  /\ TasksControls
  /\ Apply(Render([Cur EXCEPT
       !.Tasks.editingTask = NullObj,
       !.Tasks.formData = [title |-> EmptyStr, description |-> EmptyStr,
                           status |-> "pending"],
       !.Tasks.errors = NoErrorsObj,
       !.Tasks.message = NoMessage,
       !.Tasks.showModal = TRUE]))

\* The Edit and Delete buttons exist for the tasks of the list, which is
\* rendered only while the view is not loading.
TaskButtons(task) ==
  /\ TasksControls
  /\ ~Tasks.loading
  /\ \E i \in 1..Len(Tasks.tasks) : Tasks.tasks[i] = task

Tasks_handleEdit(task) ==
  /\ TaskButtons(task)
  /\ Apply(Render([Cur EXCEPT
       !.Tasks.editingTask = task,
       !.Tasks.formData = [title |-> task.title, description |-> task.description,
                           status |-> task.status],
       !.Tasks.errors = NoErrorsObj,
       !.Tasks.message = NoMessage,
       !.Tasks.showModal = TRUE]))

\* What a handler of this render captured of the view's state: fetchTasks
\* is the callback made for this searchText and statusFilter.
TasksClosure(s) ==
  [searchText |-> s.Tasks.searchText, statusFilter |-> s.Tasks.statusFilter]

\* Tasks.handleSubmit up to its await.
Tasks_submit(s) ==
  LET newErrors == Tasks_validate(s.Tasks.formData)
      s1 == [s EXCEPT !.Tasks.message = NoMessage, !.Tasks.errors = newErrors,
                      !.event = Submission("Tasks.handleSubmit")]
      s2 == [s1 EXCEPT !.Tasks.loading = TRUE]
  IN  IF ~NoErrors(newErrors) THEN s1
      ELSE IF s.Tasks.editingTask # NullObj
           THEN api(s2, "tasks.update",
                    [id |-> s.Tasks.editingTask.id, body |-> s.Tasks.formData],
                    "Tasks", TRUE, Null, TasksClosure(s))
           ELSE api(s2, "tasks.create", [body |-> s.Tasks.formData],
                    "Tasks", TRUE, Null, TasksClosure(s))

Tasks_handleSubmit ==
  /\ TasksShown /\ Tasks.showModal
  /\ ~Tasks.loading
  /\ NoErrors(Tasks_validate(Tasks.formData)) => Room
  /\ Apply(Render(Tasks_submit(Cur)))

\* A handleDelete that does not await the DELETE before it calls fetchTasks.
Tasks_delete_unawaited(s, id, confirmed) ==
  IF ~confirmed
  THEN [s EXCEPT !.event = [Submission("Tasks.handleDelete") EXCEPT
                              !.status = "declined", !.data = [id |-> id]]]
  ELSE fetchTasks(
         api([s EXCEPT !.event = [Submission("Tasks.handleDelete") EXCEPT
                                    !.status = "confirmed", !.data = [id |-> id]]],
             "tasks.delete", [id |-> id], "Tasks", TRUE, Null,
             [searchText |-> s.Tasks.searchText, statusFilter |-> s.Tasks.statusFilter]),
         s.Tasks.searchText, s.Tasks.statusFilter, TRUE, "tasks.delete")

\* A handleDelete that does not ask.
Tasks_delete_unasked(s, id, confirmed) ==
  api([s EXCEPT !.Tasks.loading = TRUE,
                !.event = [Submission("Tasks.handleDelete") EXCEPT
                             !.status = IF confirmed THEN "confirmed" ELSE "declined",
                             !.data = [id |-> id]]],
      "tasks.delete", [id |-> id], "Tasks", TRUE, Null,
      [searchText |-> s.Tasks.searchText, statusFilter |-> s.Tasks.statusFilter])

\* Tasks.handleDelete up to its await; confirmed is what window.confirm
\* returned.
Tasks_delete(s, id, confirmed) ==
  IF ~confirmed
  THEN [s EXCEPT !.event = [Submission("Tasks.handleDelete") EXCEPT
                              !.status = "declined", !.data = [id |-> id]]]
  ELSE api([s EXCEPT !.Tasks.loading = TRUE,
                     !.event = [Submission("Tasks.handleDelete") EXCEPT
                                  !.status = "confirmed", !.data = [id |-> id]]],
           "tasks.delete", [id |-> id], "Tasks", TRUE, Null, TasksClosure(s))

Tasks_handleDelete(task, confirmed) ==
  /\ TaskButtons(task)
  /\ confirmed => Room
  /\ Apply(Render(Tasks_delete(Cur, task.id, confirmed)))

SuccessText(kind) ==
  CASE kind = "tasks.update" -> "Task updated successfully!"
    [] kind = "tasks.create" -> "Task created successfully!"
    [] kind = "tasks.delete" -> "Task deleted successfully!"

FailureText(kind) ==
  IF kind = "tasks.delete" THEN "Failed to delete task" ELSE "Operation failed"

\* A continuation that closes the modal and re-fetches whatever the outcome.
Tasks_resume_alwaysCloses(s, n, resp) ==
  LET req    == s.requests[n]
      isLive == req.live
      s1 == responseInterceptor(settle(s, n, resp), resp)
      s3 == IF ~isLive THEN s1
            ELSE [s1 EXCEPT
                    !.Tasks.message =
                      IF resp.status = "200"
                      THEN [type |-> "success", text |-> SuccessText(req.kind)]
                      ELSE [type |-> "error",
                            text |-> ErrorText(resp, FailureText(req.kind))],
                    !.Tasks.showModal =
                      IF req.kind = "tasks.delete" THEN @ ELSE FALSE]
      s2 == fetchTasks(s3, req.closure.searchText, req.closure.statusFilter,
                       isLive, req.kind)
  IN  IF isLive THEN [s2 EXCEPT !.Tasks.loading = FALSE] ELSE s2

\* handleSubmit and handleDelete from the response on: on success the
\* message, the modal closed (create, update) and fetchTasks() of the render
\* that made the handler; on failure the message; finally setLoading(false).
Tasks_resume(s, n, resp) ==
  LET req    == s.requests[n]
      isLive == req.live
      s1 == responseInterceptor(settle(s, n, resp), resp)
      s2 == IF resp.status = "200"
            THEN LET s3 == IF ~isLive THEN s1
                           ELSE [s1 EXCEPT
                                   !.Tasks.message =
                                     [type |-> "success", text |-> SuccessText(req.kind)],
                                   !.Tasks.showModal =
                                     IF req.kind = "tasks.delete" THEN @ ELSE FALSE]
                 IN  fetchTasks(s3, req.closure.searchText, req.closure.statusFilter,
                                isLive, req.kind)
            ELSE IF isLive
                 THEN [s1 EXCEPT !.Tasks.message =
                         [type |-> "error", text |-> ErrorText(resp, FailureText(req.kind))]]
                 ELSE s1
  IN  IF isLive THEN [s2 EXCEPT !.Tasks.loading = FALSE] ELSE s2

Tasks_response(n, resp) ==
  /\ n \in pending /\ requests[n].kind \in Mutations
  /\ Apply(Render(Tasks_resume(Cur, n, resp)))

\* The Cancel button of the modal.
Tasks_cancel ==
  /\ TasksShown /\ Tasks.showModal
  /\ Apply(Render([Cur EXCEPT !.Tasks.showModal = FALSE]))

Next ==
  \/ Restore
  \/ \E r \in Routes : Reload(r)
  \/ \E to \in Routes : LinkTo(to)
  \/ \E in \in Typing(Login.formData, LoginFields) : Login_handleChange(in[1], in[2])
  \/ Login_handleSubmit
  \/ \E n \in pending : \E resp \in Responses(requests[n].kind) : Login_response(n, resp)
  \/ \E in \in Typing(Signup.formData, SignupFields) : Signup_handleChange(in[1], in[2])
  \/ Signup_handleSubmit
  \/ \E n \in pending : \E resp \in Responses(requests[n].kind) : Signup_response(n, resp)
  \/ Dashboard_handleLogout
  \/ \E tab \in {"profile", "tasks"} : Dashboard_setActiveTab(tab)
  \/ Profile_edit
  \/ \E in \in Typing(Profile.formData, ProfileFields) : Profile_handleChange(in[1], in[2])
  \/ Profile_handleSubmit
  \/ \E n \in pending : \E resp \in Responses(requests[n].kind) : Profile_response(n, resp)
  \/ Profile_handleCancel
  \/ \E value \in SearchTexts : Tasks_setSearchText(value)
  \/ \E value \in StatusFilters : Tasks_setStatusFilter(value)
  \/ \E n \in pending : \E resp \in Responses(requests[n].kind) : Tasks_fetchResponse(n, resp)
  \/ \E in \in Typing(Tasks.formData, TaskFields) : Tasks_handleChange(in[1], in[2])
  \/ Tasks_handleCreate
  \/ \E i \in 1..Len(Tasks.tasks) : Tasks_handleEdit(Tasks.tasks[i])
  \/ Tasks_handleSubmit
  \/ \E i \in 1..Len(Tasks.tasks) : \E confirmed \in BOOLEAN :
       Tasks_handleDelete(Tasks.tasks[i], confirmed)
  \/ \E n \in pending : \E resp \in Responses(requests[n].kind) : Tasks_response(n, resp)
  \/ Tasks_cancel

Spec == Init /\ [][Next]_vars

\* ------------------------------------------- the tasks view on its own
\* A session as login(tok, usr) leaves it, on the dashboard, where the
\* Tasks tab has just been opened: Tasks is mounted and its first list
\* fetch is in flight.
TasksOpened(tok, usr, lim) ==
  LET s0 == login(FreshPage(EmptyStorage, "/dashboard", lim), tok, usr)
      s1 == [s0 EXCEPT !.loading = FALSE, !.view = "Dashboard",
                       !.activeTab = "tasks", !.userSet = FALSE]
  IN  fetchTasks(s1, EmptyStr, Empty, TRUE, Null)

\* The Tasks view with two requests in flight at a time: search, filter,
\* the list responses, delete, and the modal as handleCreate and handleEdit
\* open it (nothing is typed into it).
InitTasks ==
  StateIs(TasksOpened("t1", [id |-> 1, name |-> <<"a">>, email |-> ValidEmail],
                      MaxTasksInflight))

NextTasks ==
  \/ \E value \in SearchTexts : Tasks_setSearchText(value)
  \/ \E value \in StatusFilters : Tasks_setStatusFilter(value)
  \/ \E n \in pending : \E resp \in Responses(requests[n].kind) : Tasks_fetchResponse(n, resp)
  \/ Tasks_handleCreate
  \/ \E i \in 1..Len(Tasks.tasks) : Tasks_handleEdit(Tasks.tasks[i])
  \/ Tasks_handleSubmit
  \/ \E i \in 1..Len(Tasks.tasks) : \E confirmed \in BOOLEAN :
       Tasks_handleDelete(Tasks.tasks[i], confirmed)
  \/ \E n \in pending : \E resp \in Responses(requests[n].kind) : Tasks_response(n, resp)
  \/ Tasks_cancel

SpecTasks == InitTasks /\ [][NextTasks]_vars

\* -------------------------------------------- the forms and their inputs
\* Longest password drawn as an input.
MaxPasswordLen == 7
\* Longest name, title or description drawn as an input.
MaxWordLen == 2

\* All strings over chars of length at most n.
RECURSIVE Strings(_, _)
Strings(chars, n) ==
  IF n = 0 THEN {EmptyStr}
  ELSE LET shorter == Strings(chars, n - 1)
       IN  shorter \cup {Append(w, c) : w \in shorter, c \in chars}

\* The string of n characters c.
RECURSIVE Repeat(_, _)
Repeat(c, n) == IF n = 0 THEN EmptyStr ELSE Append(Repeat(c, n - 1), c)

Emails == Strings({"a", "@", ".", " "}, MaxEmailLen)
Words == Strings({"b", " "}, MaxWordLen)
\* Passwords of every length up to the bound, two of each length.
Passwords ==
  {Repeat("a", n) : n \in 0..MaxPasswordLen}
  \cup {Append(Repeat("a", n - 1), "b") : n \in 1..MaxPasswordLen}
GoodPassword == Repeat("a", MinPasswordLength)

\* Form contents: every e-mail (and name) with an empty or a good password,
\* and every pair of passwords with an empty or a good e-mail and name.
LoginInputs ==
  {[email |-> e, password |-> p] : e \in Emails, p \in {EmptyStr, GoodPassword}}
  \cup {[email |-> e, password |-> p] : e \in {EmptyStr, ValidEmail}, p \in Passwords}

SignupInputs ==
  {[name |-> nm, email |-> e, password |-> GoodPassword, confirmPassword |-> GoodPassword] :
       nm \in Words, e \in Emails}
  \cup {[name |-> nm, email |-> e, password |-> p, confirmPassword |-> c] :
       nm \in {EmptyStr, <<"b">>}, e \in {EmptyStr, <<"a", "@">>, ValidEmail},
       p \in Passwords, c \in Passwords}

ProfileInputs ==
  {[name |-> nm, email |-> e, password |-> EmptyStr] :
       nm \in {EmptyStr, <<" ">>, <<"b">>}, e \in Emails}
  \cup {[name |-> nm, email |-> e, password |-> p] :
       nm \in {EmptyStr, <<"b">>}, e \in {EmptyStr, <<"a", "@">>, ValidEmail},
       p \in Passwords}

TaskInputs ==
  {[title |-> t, description |-> d, status |-> "pending"] : t \in Words, d \in Words}

\* The login page, the signup page (no session), the profile form being
\* edited, the Create Task modal (the list fetched and empty) or the Edit
\* Task modal (the list fetched, holding the task), the form filled in.
InitForms ==
  LET page(r) == [FreshPage(EmptyStorage, r, MaxInflight) EXCEPT !.loading = FALSE]
      usr     == [id |-> 1, name |-> <<"a">>, email |-> ValidEmail]
      tasks   == [TasksOpened("t1", usr, MaxInflight)
                    EXCEPT !.requests = << >>, !.Tasks.loading = FALSE,
                           !.Tasks.showModal = TRUE]
      profile == [tasks EXCEPT !.activeTab = "profile", !.Tasks = TasksInit,
                               !.Profile.isEditing = TRUE]
  IN  \/ \E fd \in LoginInputs :
           StateIs([page("/login") EXCEPT !.Login.formData = fd])
      \/ \E fd \in SignupInputs :
           StateIs([page("/signup") EXCEPT !.Signup.formData = fd])
      \/ \E fd \in ProfileInputs :
           StateIs([profile EXCEPT !.Profile.formData = fd])
      \/ \E fd \in TaskInputs :
           \/ StateIs([tasks EXCEPT !.Tasks.formData = fd])
           \/ StateIs([tasks EXCEPT !.Tasks.formData = fd,
                                    !.Tasks.tasks = <<Task1>>,
                                    !.Tasks.editingTask = Task1])

NextForms ==
  \/ Login_handleSubmit
  \/ \E n \in pending : \E resp \in Responses(requests[n].kind) : Login_response(n, resp)
  \/ Signup_handleSubmit
  \/ \E n \in pending : \E resp \in Responses(requests[n].kind) : Signup_response(n, resp)
  \/ Profile_handleSubmit
  \/ \E n \in pending : \E resp \in Responses(requests[n].kind) : Profile_response(n, resp)
  \/ Tasks_handleSubmit
  \/ \E n \in pending : \E resp \in Responses(requests[n].kind) : Tasks_response(n, resp)
  \/ \E n \in pending : \E resp \in Responses(requests[n].kind) : Tasks_fetchResponse(n, resp)

SpecForms == InitForms /\ [][NextForms]_vars

\* ---------------------------------------------------------------- fairness
\* Some request in flight is answered, with a success or with a failure.
Respond ==
  \E n \in pending : \E resp \in Responses(requests[n].kind) :
    \/ Login_response(n, resp)
    \/ Signup_response(n, resp)
    \/ Profile_response(n, resp)
    \/ Tasks_fetchResponse(n, resp)
    \/ Tasks_response(n, resp)

\* The form on the screen passes its validation.
FormValid ==
  CASE view = "Login"     -> NoErrors(Login_validate(Login.formData))
    [] view = "Signup"    -> NoErrors(Signup_validate(Signup.formData))
    [] activeTab = "profile" -> NoErrors(Profile_validate(Profile.formData))
    [] OTHER              -> NoErrors(Tasks_validate(Tasks.formData))

InitValidForms == InitForms /\ FormValid

\* The forms filled in validly, under the assumption that no request stays
\* in flight for ever: the server answers, or the browser reports a network
\* error.
SpecValidForms == InitValidForms /\ [][NextForms]_vars /\ WF_vars(Respond)

\* ------------------------------------------------------------ properties
\* The requests sent by the step: what the step appended to the requests
\* in flight, after taking out the one it answered.
Dispatched ==
  LET kept == IF event'.name = "response" THEN Len(requests) - 1 ELSE Len(requests)
  IN  SubSeq(requests', kept + 1, Len(requests'))

\* C1: at all times the session's token and user are both present or both
\* absent, also after a profile-update response that arrives after logout.
C1_TokenAndUserTogether == (token # Null) <=> (user # NullObj)

\* C2: right after login(token, user) isAuthenticated is true and
\* localStorage holds the token and the serialised user that were passed;
\* right after logout() isAuthenticated is false and localStorage holds
\* neither.
C2_LoginLogout ==
  /\ (event.name = "response" /\ event.kind \in {"auth.login", "auth.signup"}
        /\ event.status = "200")
       => /\ token # Null /\ token = event.data.token /\ user = event.data.user
          /\ hasItem(storage, "token") /\ storage["token"] = event.data.token
          /\ hasItem(storage, "user")
          /\ storage["user"] = JSON_stringify(event.data.user)
          /\ JSON_parse(storage["user"]) = event.data.user
  /\ event.name = "Dashboard.handleLogout"
       => /\ token = Null /\ user = NullObj
          /\ ~hasItem(storage, "token") /\ ~hasItem(storage, "user")

\* A login has just succeeded over a page that held nothing.
C2_Witness ==
  /\ event.name = "response" /\ event.kind = "auth.login" /\ event.status = "200"
  /\ event.data.token = "t2" /\ storage["token"] = "t2"
  /\ view = "Dashboard"

\* C3: whatever the call, a 401 response removes token and user from
\* localStorage, sets the location to /login, and is still rejected to the
\* caller: the caller's success path does not run and, if its component is
\* still mounted, its catch shows the error.
C3_Unauthorized ==
  [][(event'.name = "response" /\ event'.status = "401") =>
       LET req == requests[event'.n]
       IN  /\ ~hasItem(storage', "token") /\ ~hasItem(storage', "user")
           /\ href' = "/login"
           /\ Dispatched = << >>
           /\ token' = token /\ user' = user /\ route' = route
           /\ req.live =>
                CASE req.origin = "Login" ->
                       Login'.apiError # Empty /\ ~Login'.loading
                  [] req.origin = "Signup" ->
                       Signup'.apiError # Empty /\ ~Signup'.loading
                  [] req.origin = "Profile" ->
                       /\ Profile'.message.type = "error" /\ ~Profile'.loading
                       /\ Profile'.isEditing = Profile.isEditing
                  [] req.origin = "Tasks" ->
                       /\ Tasks'.message.type = "error" /\ ~Tasks'.loading
                       /\ Tasks'.tasks = Tasks.tasks
     ]_vars

\* A task deletion was answered 401 in a session: the storage is empty and
\* the navigation to /login is pending.
C3_Witness ==
  /\ event.name = "response" /\ event.status = "401" /\ event.kind = "tasks.delete"
  /\ token # Null /\ storage = EmptyStorage /\ href = "/login"
  /\ Tasks.message.type = "error"

\* C4: a request sent while the session has a token carries
\* Authorization: Bearer <that token>, and a request sent while the session
\* has no token carries no Authorization header.
C4_BearerOfSession ==
  [][\A i \in 1..Len(Dispatched) :
       Dispatched[i].Authorization =
         IF token # Null THEN <<"Bearer", token>> ELSE NoAuthorization
     ]_vars

\* C5: the dashboard is shown only when the restoration has finished and a
\* token is present; at /dashboard nothing is shown while the restoration
\* is pending, and without a token after it the route is not /dashboard
\* (the guard has redirected to the login view).
C5_Guard ==
  /\ view = "Dashboard" => ~loading /\ token # Null
  /\ (route = "/dashboard" /\ loading) => view = "none"
  /\ (~loading /\ token = Null) => route # "/dashboard"

\* /dashboard was opened over a stored session and the restoration is
\* pending: nothing is shown.
C5_Witness ==
  /\ route = "/dashboard" /\ loading /\ view = "none"
  /\ hasItem(storage, "token") /\ token = Null

\* A string that is empty or made of blanks only.
Blank(str) == \A i \in 1..Len(str) : str[i] = " "

\* A string that holds local@domain.tld: an @ with a non-blank before it, a
\* later dot with a non-blank after it, and one or more non-blanks between.
HasEmailShape(str) ==
  \E at \in 1..Len(str) : \E dot \in 1..Len(str) :
    /\ str[at] = "@" /\ str[dot] = "."
    /\ 1 < at /\ at + 1 < dot /\ dot < Len(str)
    /\ str[at - 1] # " " /\ str[dot + 1] # " "
    /\ \A i \in (at + 1)..(dot - 1) : str[i] # " "

\* The fields of a form that are invalid: a required field empty, an
\* e-mail not of the shape, a password shorter than 6.
InvalidFields(formData) ==
  {f \in DOMAIN formData :
     CASE f = "name"     -> Blank(formData.name)
       [] f = "email"    -> Blank(formData.email) \/ ~HasEmailShape(formData.email)
       [] f = "password" -> Len(formData.password) < 6
       [] f = "confirmPassword" -> formData.confirmPassword = EmptyStr}

\* C6: submitting the login or the signup form with an invalid field sends
\* no request, leaves an error message for each invalid field, and leaves
\* the session (token, user, localStorage, the page shown) as it was.
C6_InvalidFormBlocked ==
  [][/\ (event'.name = "Login.handleSubmit" /\ InvalidFields(Login.formData) # {})
          => /\ Dispatched = << >> /\ requests' = requests
             /\ \A f \in InvalidFields(Login.formData) : ErrorAt(Login'.errors, f) # Empty
             /\ ~Login'.loading
             /\ token' = token /\ user' = user /\ storage' = storage /\ view' = view
     /\ (event'.name = "Signup.handleSubmit" /\ InvalidFields(Signup.formData) # {})
          => /\ Dispatched = << >> /\ requests' = requests
             /\ \A f \in InvalidFields(Signup.formData) : ErrorAt(Signup'.errors, f) # Empty
             /\ ~Signup'.loading
             /\ token' = token /\ user' = user /\ storage' = storage /\ view' = view
    ]_vars

\* The signup form was submitted with a blank name and an e-mail without a
\* dot after the @: both fields carry their message, nothing was sent.
C6_Witness ==
  /\ event.name = "Signup.handleSubmit"
  /\ Signup.formData.name = <<" ">> /\ Signup.formData.email = <<"a", "@", "a">>
  /\ Signup.errors = [name |-> "Name is required", email |-> "Email is invalid"]
  /\ requests = << >> /\ token = Null

\* C7: submitting the signup form with password different from
\* confirmPassword leaves an error on confirmPassword and sends nothing.
C7_PasswordMismatch ==
  [][(event'.name = "Signup.handleSubmit"
        /\ Signup.formData.password # Signup.formData.confirmPassword)
       => /\ ErrorAt(Signup'.errors, "confirmPassword") # Empty
          /\ Dispatched = << >> /\ requests' = requests
          /\ ~Signup'.loading /\ token' = token /\ view' = view
    ]_vars

\* The signup form was submitted with two acceptable passwords that differ
\* and nothing else wrong: the mismatch is the only error, nothing was sent.
C7_Witness ==
  /\ event.name = "Signup.handleSubmit"
  /\ Signup.formData.password = GoodPassword
  /\ Signup.formData.confirmPassword = <<"a", "a", "a", "a", "a", "b">>
  /\ Signup.errors = [confirmPassword |-> "Passwords do not match"]
  /\ requests = << >>

\* What the step sent is exactly one request of the kind.
SentOne(kind) == Len(Dispatched) = 1 /\ Dispatched[1].kind = kind

\* The declined half and the DELETE of C8: declining the dialog sends
\* nothing and changes nothing of the view; confirming it sends exactly one
\* DELETE, for the task the button belongs to.
DeleteAsked ==
  /\ (event'.name = "Tasks.handleDelete" /\ event'.status = "declined")
       => /\ Dispatched = << >> /\ requests' = requests
          /\ Tasks' = Tasks /\ view' = view /\ activeTab' = activeTab
          /\ token' = token /\ user' = user /\ storage' = storage
  /\ (event'.name = "Tasks.handleDelete" /\ event'.status = "confirmed")
       => /\ SentOne("tasks.delete")
          /\ Dispatched[1].data = [id |-> event'.data.id]
          /\ \E i \in 1..Len(Tasks.tasks) : Tasks.tasks[i].id = event'.data.id

\* C8 as stated: a declined deletion sends nothing and changes nothing; a
\* confirmed deletion sends exactly one DELETE, followed by exactly one
\* list re-fetch.
C8_Original ==
  [][/\ DeleteAsked
     /\ (event'.name = "response" /\ event'.kind = "tasks.delete")
          => SentOne("tasks.getAll")
    ]_vars

\* C8, amended: a declined deletion sends nothing and changes nothing; a
\* confirmed deletion sends exactly one DELETE, followed by exactly one
\* list re-fetch when the DELETE succeeds and by none when it fails.
C8_DeleteThenRefetch ==
  [][/\ DeleteAsked
     /\ (event'.name = "response" /\ event'.kind = "tasks.delete")
          => IF event'.status = "200"
             THEN SentOne("tasks.getAll") /\ Dispatched[1].cause = "tasks.delete"
             ELSE Dispatched = << >>
    ]_vars

\* A confirmed deletion has succeeded and its one re-fetch is in flight.
C8_Witness ==
  /\ event.name = "response" /\ event.kind = "tasks.delete" /\ event.status = "200"
  /\ Len(requests) = 1 /\ requests[1].kind = "tasks.getAll"
  /\ requests[1].cause = "tasks.delete"
  /\ Tasks.message.text = "Task deleted successfully!"

\* C9: every list fetch of the mounted Tasks view is sent with the search
\* text and the status filter current when it is sent, and each change of
\* the search text or of the status filter sends exactly one fetch.
C9_CurrentParams ==
  [][/\ \A i \in 1..Len(Dispatched) :
          (Dispatched[i].kind = "tasks.getAll" /\ Dispatched[i].live)
            => Dispatched[i].data = FetchParams(Tasks'.searchText, Tasks'.statusFilter)
     /\ (Tasks'.searchText # Tasks.searchText \/ Tasks'.statusFilter # Tasks.statusFilter)
          => SentOne("tasks.getAll")
    ]_vars

\* The title and the description of a task form are both filled in.
ValidTask(formData) == ~Blank(formData.title) /\ ~Blank(formData.description)

\* The validation half and the POST of C10: a blank title leaves 'Title is
\* required' and sends nothing; a valid create submission sends exactly one
\* POST with the form's data.
CreateSubmitted ==
  /\ (event'.name = "Tasks.handleSubmit" /\ Blank(Tasks.formData.title))
       => /\ ErrorAt(Tasks'.errors, "title") = "Title is required"
          /\ Dispatched = << >> /\ requests' = requests
          /\ Tasks'.showModal /\ ~Tasks'.loading
  /\ (event'.name = "Tasks.handleSubmit" /\ Tasks.editingTask = NullObj
        /\ ValidTask(Tasks.formData))
       => /\ SentOne("tasks.create")
          /\ Dispatched[1].data = [body |-> Tasks.formData]

\* C10 as stated: a create submission with an empty or blank title shows
\* 'Title is required' and sends nothing; a valid one sends exactly one
\* POST followed by exactly one GET that refreshes the list.
C10_Original ==
  [][/\ CreateSubmitted
     /\ (event'.name = "response" /\ event'.kind = "tasks.create")
          => SentOne("tasks.getAll")
    ]_vars

\* C10, amended: as stated, the GET following when the POST succeeds and
\* no request following when it fails.
C10_CreateThenRefetch ==
  [][/\ CreateSubmitted
     /\ (event'.name = "response" /\ event'.kind = "tasks.create")
          => IF event'.status = "200"
             THEN SentOne("tasks.getAll") /\ Dispatched[1].cause = "tasks.create"
             ELSE Dispatched = << >>
    ]_vars

\* A valid create submission was answered 200: the modal is closed and the
\* one list refresh is in flight.
C10_Witness ==
  /\ event.name = "response" /\ event.kind = "tasks.create" /\ event.status = "200"
  /\ Len(requests) = 1 /\ requests[1].kind = "tasks.getAll"
  /\ requests[1].cause = "tasks.create"
  /\ Tasks.message.text = "Task created successfully!" /\ ~Tasks.showModal

\* C11: a list re-fetch that follows a create, update or delete is sent only
\* by the step that receives the response of that request (which is then no
\* longer in flight), and only when that response is a success; every
\* successful create, update and delete sends one.
C11_RefetchAfterResponse ==
  [][/\ \A i \in 1..Len(Dispatched) :
          Dispatched[i].cause # Null
            => /\ Dispatched[i].kind = "tasks.getAll"
               /\ event'.name = "response" /\ event'.status = "200"
               /\ event'.kind = Dispatched[i].cause
               /\ requests[event'.n].kind = Dispatched[i].cause
               /\ Len(requests') = Len(requests)
     /\ (event'.name = "response" /\ event'.kind \in Mutations /\ event'.status = "200")
          => SentOne("tasks.getAll") /\ Dispatched[1].cause = event'.kind
     /\ \A i \in 1..Len(Dispatched) :
          Dispatched[i].kind \in Mutations => Len(Dispatched) = 1
    ]_vars

\* An update has succeeded: it is no longer in flight, its re-fetch is.
C11_Witness ==
  /\ event.name = "response" /\ event.kind = "tasks.update" /\ event.status = "200"
  /\ Len(requests) = 1 /\ requests[1].kind = "tasks.getAll"
  /\ requests[1].cause = "tasks.update"

\* C12: updateUser(user) puts the user in memory and under the 'user' key
\* of localStorage, and leaves the token in memory and the 'token' key of
\* localStorage as they were.  (updateUser is called by the step that
\* receives the 200 response of a profile update, with the user of the
\* response.)
C12_UpdateUserFrame ==
  [][(event'.name = "response" /\ event'.kind = "profile.update"
        /\ event'.status = "200")
       => /\ user' = event'.data.user
          /\ hasItem(storage', "user")
          /\ JSON_parse(storage'["user"]) = event'.data.user
          /\ token' = token
          /\ hasItem(storage', "token") <=> hasItem(storage, "token")
          /\ getItem(storage', "token") = getItem(storage, "token")
          /\ DOMAIN storage' = DOMAIN storage \cup {"user"}
    ]_vars

\* A profile update was answered with a user of another name: the session
\* holds the new user and the token it held.
C12_Witness ==
  /\ event.name = "response" /\ event.kind = "profile.update" /\ event.status = "200"
  /\ user.name = <<"b">> /\ token = "t1"
  /\ storage = [token |-> "t1", user |-> JSON_stringify(user)]
  /\ Profile.message.type = "success"

\* A submission request of the component, sent by its mounted instance, is
\* in flight.
Submitting(origin) ==
  \E n \in pending :
    /\ requests[n].origin = origin /\ requests[n].live
    /\ requests[n].kind \in {"auth.login", "auth.signup", "profile.update",
                             "tasks.create", "tasks.update"}

\* C13: for the login, signup, profile and task form, the step that
\* receives the response of a submission request, success or failure,
\* leaves the form's loading flag false; and as requests do not stay in
\* flight for ever, whenever the submission of a form is in flight, a state
\* follows in which no form's loading flag is set.
C13_ControlRestored ==
  /\ [][(event'.name = "response" /\ requests[event'.n].live
           /\ event'.kind \in {"auth.login", "auth.signup", "profile.update",
                               "tasks.create", "tasks.update"})
          => CASE event'.kind = "auth.login"     -> ~Login'.loading
               [] event'.kind = "auth.signup"    -> ~Signup'.loading
               [] event'.kind = "profile.update" -> ~Profile'.loading
               [] OTHER                          -> ~Tasks'.loading
       ]_vars
  /\ (\E form \in {"Login", "Signup", "Profile", "Tasks"} : Submitting(form))
       ~> (~Login.loading /\ ~Signup.loading /\ ~Profile.loading /\ ~Tasks.loading)

\* A login was refused with the server's message: the form shows it and
\* its submit control is enabled again.
C13_Witness ==
  /\ event.name = "response" /\ event.kind = "auth.login" /\ event.status = "500"
  /\ view = "Login" /\ Login.apiError = ServerMessage /\ ~Login.loading
  /\ requests = << >>

\* The loading flag of a component's form, which disables its submit
\* control.
LoadingOf(origin) ==
  CASE origin = "Login"   -> Login.loading
    [] origin = "Signup"  -> Signup.loading
    [] origin = "Profile" -> Profile.loading
    [] origin = "Tasks"   -> Tasks.loading

\* C14: while a submission request of a form is in flight the form's submit
\* control is disabled, and a form never has two of its submission requests
\* in flight at once; for the task form also when list fetches of the view
\* are in flight with it.
C14_OneSubmission ==
  \A form \in {"Login", "Signup", "Profile", "Tasks"} :
    /\ Submitting(form) => LoadingOf(form)
    /\ \A m \in pending : \A n \in pending :
         (/\ requests[m].origin = form /\ requests[m].live
          /\ requests[n].origin = form /\ requests[n].live
          /\ requests[m].kind \in {"auth.login", "auth.signup", "profile.update",
                                   "tasks.create", "tasks.update"}
          /\ requests[n].kind \in {"auth.login", "auth.signup", "profile.update",
                                   "tasks.create", "tasks.update"})
           => m = n

\* The message a handler shows for a failed request of the kind when the
\* server sent none.
Fallback(kind) ==
  CASE kind = "auth.login"     -> "Login failed. Please check your credentials."
    [] kind = "auth.signup"    -> "Signup failed. Please try again."
    [] kind = "profile.update" -> "Failed to update profile"
    [] kind = "tasks.getAll"   -> "Failed to fetch tasks"
    [] kind = "tasks.delete"   -> "Failed to delete task"
    [] OTHER                   -> "Operation failed"

\* C15: a failure other than 401 (a 4xx, a 5xx, no response at all) reaches
\* the caller as it is: the caller's success path does not run and, if its
\* component is still mounted, it shows the server's message, or its
\* fallback if there is none; token and user in memory and localStorage are
\* unchanged and no navigation to /login is set.
C15_OtherFailures ==
  [][(event'.name = "response" /\ event'.status \notin {"200", "401"}) =>
       LET req   == requests[event'.n]
           text  == IF event'.status \in {"400", "500"} THEN ServerMessage
                    ELSE Fallback(req.kind)
       IN  /\ token' = token /\ user' = user /\ storage' = storage
           /\ href' = href /\ route' = route /\ view' = view
           /\ Dispatched = << >>
           /\ req.live =>
                CASE req.origin = "Login"   -> Login'.apiError = text
                  [] req.origin = "Signup"  -> Signup'.apiError = text
                  [] req.origin = "Profile" ->
                       Profile'.message = [type |-> "error", text |-> text]
                  [] req.origin = "Tasks"   ->
                       Tasks'.message = [type |-> "error", text |-> text]
     ]_vars

\* A profile update failed without a response, in a session: the session
\* is as it was and the form shows the fallback message.
C15_Witness ==
  /\ event.name = "response" /\ event.kind = "profile.update"
  /\ event.status = NetworkError
  /\ token = "t1" /\ hasItem(storage, "token") /\ hasItem(storage, "user")
  /\ href = Null /\ view = "Dashboard"
  /\ Profile.message = [type |-> "error", text |-> "Failed to update profile"]

\* What an initialization yields when the stored token or the stored user
\* is absent: the logged-out session.
RestoredLoggedOut ==
  (loading /\ ~loading' /\ (~hasItem(storage, "token") \/ ~hasItem(storage, "user")))
    => token' = Null /\ user' = NullObj

\* C16 as stated: an initialization after login(token, user), with no
\* logout and no 401 in between, yields that token and that user and
\* isAuthenticated true; an initialization when the stored token or user is
\* absent yields the logged-out session.
C16_Original ==
  [][/\ (loading /\ ~loading' /\ lastLogin # NullObj)
          => token' = lastLogin.token /\ token' # Null /\ user' = lastLogin.user
     /\ RestoredLoggedOut
    ]_vars

\* C16, amended: the initialization yields that token, isAuthenticated
\* true, and the user last given to login or to updateUser.
C16_RestoreRoundTrip ==
  [][/\ (loading /\ ~loading' /\ lastLogin # NullObj)
          => token' = lastLogin.token /\ token' # Null /\ user' = lastLogin.current
     /\ RestoredLoggedOut
    ]_vars

\* A page load in a session has restored the token and the user of the
\* login.
C16_Witness ==
  /\ ~loading /\ event = NoEvent /\ requests = << >>
  /\ lastLogin # NullObj /\ token = lastLogin.token /\ user = lastLogin.user
  /\ token = "t2" /\ view = "Login" /\ route = "/login"

\* C17: the response to a request whose view (Profile or Tasks) has been
\* unmounted meanwhile changes neither the state of that view nor the
\* session: user and token in memory and localStorage stay as they were.
\* (Stated for the responses other than 401, which ends the stored session
\* whatever the view.)
C17_ResponseDiscarded ==
  [][(/\ event'.name = "response" /\ event'.status # "401"
      /\ requests[event'.n].origin \in {"Profile", "Tasks"}
      /\ ~requests[event'.n].live)
       => /\ Profile' = Profile /\ Tasks' = Tasks
          /\ user' = user /\ token' = token /\ storage' = storage
    ]_vars

\* The fields of each form that violate their rule: a required text empty
\* or blank, an e-mail not of the shape, a required password shorter than
\* 6 (an optional one non-empty and shorter than 6), a confirmation empty
\* or different from the password.
Violations(form, formData) ==
  CASE form = "Login" ->
         {f \in {"email", "password"} :
            CASE f = "email"    -> ~HasEmailShape(formData.email)
              [] f = "password" -> Len(formData.password) < 6}
    [] form = "Signup" ->
         {f \in {"name", "email", "password", "confirmPassword"} :
            CASE f = "name"     -> Blank(formData.name)
              [] f = "email"    -> ~HasEmailShape(formData.email)
              [] f = "password" -> Len(formData.password) < 6
              [] f = "confirmPassword" ->
                   \/ formData.confirmPassword = EmptyStr
                   \/ formData.confirmPassword # formData.password}
    [] form = "Profile" ->
         {f \in {"name", "email", "password"} :
            CASE f = "name"     -> Blank(formData.name)
              [] f = "email"    -> ~HasEmailShape(formData.email)
              [] f = "password" -> formData.password # EmptyStr
                                     /\ Len(formData.password) < 6}
    [] form = "Tasks" ->
         {f \in {"title", "description"} :
            CASE f = "title"       -> Blank(formData.title)
              [] f = "description" -> Blank(formData.description)}

\* The form of the name as the step leaves it, and its fields before.
FormAfter(form) ==
  CASE form = "Login" -> Login' [] form = "Signup" -> Signup'
    [] form = "Profile" -> Profile' [] form = "Tasks" -> Tasks'
FieldsOf(form) ==
  CASE form = "Login" -> Login.formData [] form = "Signup" -> Signup.formData
    [] form = "Profile" -> Profile.formData [] form = "Tasks" -> Tasks.formData

\* C18: validation is not fail-fast: on every submission of every form the
\* error map holds a message for each field that violates its rule, and for
\* no other field, and a request is sent exactly when the map is empty.
C18_AllErrorsCollected ==
  [][\A form \in {"Login", "Signup", "Profile", "Tasks"} :
       (event'.name = form \o ".handleSubmit")
         => /\ DOMAIN FormAfter(form).errors = Violations(form, FieldsOf(form))
            /\ \A f \in DOMAIN FormAfter(form).errors : FormAfter(form).errors[f] # Empty
            /\ (Dispatched = << >>) <=> (DOMAIN FormAfter(form).errors # {})
            /\ (DOMAIN FormAfter(form).errors = {}) => Len(Dispatched) = 1
    ]_vars

\* The profile form was submitted with no name, an e-mail without a dot
\* and a password of one character: the three fields carry their message,
\* nothing was sent.
C18_Witness ==
  /\ event.name = "Profile.handleSubmit"
  /\ Profile.formData = [name |-> EmptyStr, email |-> <<"a", "@">>, password |-> <<"a">>]
  /\ Profile.errors = [name |-> "Name is required", email |-> "Email is invalid",
                       password |-> "Password must be at least 6 characters"]
  /\ requests = << >> /\ ~Profile.loading

\* The form is one with a password field, the step submitted it, and pw is
\* the password it held.
SubmittedPassword(form, pw) ==
  /\ event'.name = form \o ".handleSubmit"
  /\ FieldsOf(form).password = pw

\* C19: on the login, signup and profile forms a non-empty password of
\* fewer than 6 characters (also with a matching confirmation) yields the
\* error 'Password must be at least 6 characters' and no request is sent;
\* a password of 6 or more characters yields no password error; on the
\* profile form an empty password yields no password error.
C19_PasswordLength ==
  [][\A form \in {"Login", "Signup", "Profile"} : \A pw \in Passwords :
       SubmittedPassword(form, pw)
         => /\ (pw # EmptyStr /\ Len(pw) < 6)
                 => /\ ErrorAt(FormAfter(form).errors, "password")
                         = "Password must be at least 6 characters"
                    /\ Dispatched = << >> /\ requests' = requests
            /\ Len(pw) >= 6 => ErrorAt(FormAfter(form).errors, "password") = Empty
            /\ (form = "Profile" /\ pw = EmptyStr)
                 => ErrorAt(FormAfter(form).errors, "password") = Empty
    ]_vars

\* The signup form was submitted with a password of five characters and
\* the same confirmation, all else valid: the password carries the length
\* error, the confirmation none, nothing was sent.
C19_Witness ==
  /\ event.name = "Signup.handleSubmit"
  /\ Len(Signup.formData.password) = 5
  /\ Signup.formData.confirmPassword = Signup.formData.password
  /\ Signup.errors = [password |-> "Password must be at least 6 characters"]
  /\ requests = << >> /\ ~Signup.loading

\* C20: the body of every signup request is exactly the name, the e-mail
\* and the password of the form: confirmPassword is never sent.
C20_SignupBody ==
  /\ \A n \in DOMAIN requests :
       requests[n].kind = "auth.signup"
         => /\ DOMAIN requests[n].data = {"name", "email", "password"}
            /\ "confirmPassword" \notin DOMAIN requests[n].data
  /\ [][\A i \in DOMAIN Dispatched :
          Dispatched[i].kind = "auth.signup"
            => Dispatched[i].data = [name     |-> Signup.formData.name,
                                     email    |-> Signup.formData.email,
                                     password |-> Signup.formData.password]
       ]_vars

\* A signup request is in flight: it carries the three fields of the form,
\* which still holds the confirmation.
C20_Witness ==
  /\ view = "Signup" /\ Signup.loading /\ Len(requests) = 1
  /\ requests[1].kind = "auth.signup"
  /\ requests[1].data.password = Signup.formData.password
  /\ Signup.formData.confirmPassword = GoodPassword

\* C21: an older list response never overwrites a newer one: the response
\* of a list fetch sent before a fetch whose list is already shown does not
\* change the list, so that once every fetch is answered the list shown is
\* the answer to the fetch sent last.
C21_NewestFetchWins ==
  [][(/\ event'.name = "response" /\ event'.kind = "tasks.getAll"
      /\ requests[event'.n].live /\ requests[event'.n].superseded)
       => Tasks'.tasks = Tasks.tasks
    ]_vars

\* C22: in every state after the initialization the session in memory
\* agrees with localStorage: the token in memory is present exactly when
\* the 'token' key is stored, and then with the same value; also after a
\* 401 response.
C22_MemoryAgreesWithStorage ==
  ~loading =>
    /\ isAuthenticated(token) <=> hasItem(storage, "token")
    /\ isAuthenticated(token) => getItem(storage, "token") = token

\* C23: when a task create or update fails no list re-fetch is sent, the
\* modal stays as it is with the title, description and status entered, and
\* the error message is the server's or 'Operation failed'; the modal of a
\* mounted Tasks view closes only on a successful create or update or on
\* Cancel.
C23_FailedSubmitKeepsModal ==
  [][/\ (/\ event'.name = "response"
         /\ event'.kind \in {"tasks.create", "tasks.update"}
         /\ event'.status # "200")
          => /\ Dispatched = << >>
             /\ requests[event'.n].live
                  => /\ Tasks'.showModal = Tasks.showModal
                     /\ Tasks'.formData = Tasks.formData
                     /\ Tasks'.editingTask = Tasks.editingTask
                     /\ Tasks'.message =
                          [type |-> "error",
                           text |-> IF event'.status \in {"400", "500"}
                                    THEN ServerMessage ELSE "Operation failed"]
     /\ (Tasks.showModal /\ ~Tasks'.showModal /\ Mounted(view', activeTab', "Tasks"))
          => \/ /\ event'.name = "response" /\ event'.status = "200"
                /\ event'.kind \in {"tasks.create", "tasks.update"}
             \/ Tasks_cancel
    ]_vars

\* A create request failed without a response: the modal is open with the
\* task as entered, the fallback message is shown, nothing is in flight.
C23_Witness ==
  /\ event.name = "response" /\ event.kind = "tasks.create"
  /\ event.status = NetworkError
  /\ Tasks.showModal /\ Tasks.editingTask = NullObj
  /\ ValidTask(Tasks.formData)
  /\ Tasks.message = [type |-> "error", text |-> "Operation failed"]
  /\ requests = << >> /\ ~Tasks.loading
====
